---- MODULE Spec2Model ----
(***************************************************************************)
(* gh-notify-bridge (src/src/main.rs): a background poller and per-request *)
(* handler threads share one AppState { state: RwLock<PersistedState> }.   *)
(* Strings that the program compares (timestamps) are sequences of byte    *)
(* values; Option<T> is a sequence of length 0 (None) or 1 (Some).         *)
(***************************************************************************)
EXTENDS Integers, Sequences, FiniteSets, TLC

\* ---------------------------------------------------------------- bounds
\* longest batch the fetcher returns in the model
MaxBatch == 2

\* ------------------------------------------------------------- constants
\* main.rs:154  "- 60"
CutoffWindow == 60

\* ------------------------------------------------------- Option<T> helpers
None == <<>>
Some(x) == <<x>>
IsSome(o) == o # <<>>
Unwrap(o) == o[1]

\* ------------------------------------------------- String comparison (Ord)
\* Rust compares Strings bytewise, lexicographically.
RECURSIVE StrLt(_, _)
StrLt(a, b) ==
    IF b = <<>> THEN FALSE
    ELSE IF a = <<>> THEN TRUE
    ELSE IF Head(a) # Head(b) THEN Head(a) < Head(b)
    ELSE StrLt(Tail(a), Tail(b))

StrGt(a, b) == StrLt(b, a)

\* ------------------------------------------------------ format_unix_to_iso
\* faulty variant of IsLeapYear: every fourth year is a leap year
IsLeapYear_EveryFourth(year) == year % 4 = 0

\* lines 231 and 243
IsLeapYear(year) == year % 4 = 0 /\ (year % 100 # 0 \/ year % 400 = 0)

DaysInYear(year) == IF IsLeapYear(year) THEN 366 ELSE 365

\* one iteration of the `loop` of lines 230-241 on <<days, year>>; once the
\* loop has left through its break the pair stays as it is
YearStep(st) ==
    IF st[1] < DaysInYear(st[2]) THEN st
    ELSE <<st[1] - DaysInYear(st[2]), st[2] + 1>>

\* n iterations of the loop, as the first half of them followed by the rest
YearSteps[st \in Int \X Int, n \in Nat] ==
    IF n = 0 THEN st
    ELSE IF n = 1 THEN YearStep(st)
    ELSE YearSteps[YearSteps[st, n \div 2], n - (n \div 2)]

\* the `loop` of lines 230-241 run to its break: every iteration takes at
\* least 365 days, so days / 365 + 1 iterations reach it.  The result is
\* <<days left in the year, year>>; the year stays far below 2^31 for every
\* instant of the model.
YearLoop(days, year) == YearSteps[<<days, year>>, days \div 365 + 1]

DaysInMonths(isLeap) ==
    IF isLeap THEN <<31, 29, 31, 30, 31, 30, 31, 31, 30, 31, 30, 31>>
    ELSE <<31, 28, 31, 30, 31, 30, 31, 31, 30, 31, 30, 31>>

\* the `for` of lines 250-257: <<month, days left in the month>>; month stays
\* 0 when the loop runs off the table
RECURSIVE MonthLoop(_, _, _)
MonthLoop(days, i, dims) ==
    IF i > 12 THEN <<0, days>>
    ELSE IF days < dims[i] THEN <<i, days>>
    ELSE MonthLoop(days - dims[i], i + 1, dims)

\* decimal digits of a natural number, as bytes
RECURSIVE Dec(_)
Dec(n) == IF n < 10 THEN <<48 + n>> ELSE Append(Dec(n \div 10), 48 + (n % 10))

\* "{:0w}": zero-padded to at least w characters, never truncated
RECURSIVE ZeroPad(_, _)
ZeroPad(s, w) == IF Len(s) >= w THEN s ELSE ZeroPad(<<48>> \o s, w)

Fmt(n, w) == ZeroPad(Dec(n), w)

\* the calendar fields computed by lines 222-258 from days_since_epoch and
\* time_of_day
CivilFieldsAt(days_since_epoch, time_of_day) ==
    LET yl == YearLoop(days_since_epoch, 1970)
        ml == MonthLoop(yl[1], 1, DaysInMonths(IsLeapYear(yl[2])))
    IN  [year |-> yl[2], month |-> ml[1], day |-> ml[2] + 1,
         hours |-> time_of_day \div 3600,
         minutes |-> (time_of_day % 3600) \div 60,
         seconds |-> time_of_day % 60]

\* lines 220-258
CivilFields(secs) == CivilFieldsAt(secs \div 86400, secs % 86400)

\* "{:04}-{:02}-{:02}T{:02}:{:02}:{:02}Z"   ('-' 45, 'T' 84, ':' 58, 'Z' 90)
FormatFields(f) ==
    Fmt(f.year, 4) \o <<45>> \o Fmt(f.month, 2) \o <<45>> \o Fmt(f.day, 2)
    \o <<84>> \o Fmt(f.hours, 2) \o <<58>> \o Fmt(f.minutes, 2)
    \o <<58>> \o Fmt(f.seconds, 2) \o <<90>>

format_unix_to_iso(secs) == FormatFields(CivilFields(secs))

\* A u64 of seconds beyond 2^31 is carried as <<secs / 86400, secs % 86400>>,
\* the two values line 220-221 split it into.
format_instant(t) == FormatFields(CivilFieldsAt(t[1], t[2]))

\* `as_secs() - 60` (line 150-154) on such a pair
Underflows(t) == t[1] = 0 /\ t[2] < CutoffWindow
SecsAgo(t) ==
    IF t[2] >= CutoffWindow THEN <<t[1], t[2] - CutoffWindow>>
    ELSE <<t[1] - 1, t[2] + 86400 - CutoffWindow>>


\* ------------------------------------------------------------------ inputs
\* readings of SystemTime::now(), in seconds since the epoch
\* (1705147200 is 2024-01-13T12:00:00Z)
NowSecs == {1705147200, 1705147230}

\* updated_at values the remote API reports: 120 s, 60 s and 10 s before the
\* first clock reading
StampSecs == {1705147080, 1705147140, 1705147190}

Stamps == {format_unix_to_iso(s) : s \in StampSecs}

\* readings of the clock given to the conversion on its own: days since the
\* epoch around the ends of February and of the year, in leap, common and
\* century years, the first days after the epoch, and the turn of the year
\* 10000; seconds of the day at its ends and around one minute
ClockDays == {0, 1, 58, 59, 364, 365, 789, 790, 11016, 11017, 19722, 19723,
              19735, 19782, 19783, 47540, 47541, 2932896, 2932897}
ClockTods == {0, 30, 59, 60, 86399}
Clocks == ClockDays \X ClockTods

\* values a client registers during the run
Endpoints == {"ep1", "ep2"}

\* endpoint an earlier run can have left in STATE_FILE
OldEndpoints == {"ep0"}

\* GitHubNotification, reduced to the fields poll_and_push branches on or
\* copies into the payload's id; the k-th record of a batch has id k
Batches ==
    UNION {
        {[k \in 1..n |-> [id |-> k, unread |-> f[k][1], updated_at |-> f[k][2]]] :
            f \in [1..n -> BOOLEAN \X Stamps]} : n \in 0..MaxBatch}

\* ----------------------------------------------------------------- threads
\* "bg" is the thread of start_poller, which loops; every other thread is
\* spawned for one request (line 326) and ends with its response.
\* "m1" handles a POST /poll
Pollers == {"bg", "m1"}
\* threads handling POST /register
Registrars == {"r1", "r2"}
\* thread handling GET /health
Healths == {"h1"}
Threads == Pollers \cup Registrars \cup Healths

VARIABLES
    endpoint,    \* state.endpoint   (in memory, behind the RwLock)
    last_poll,   \* state.last_poll  (in memory, behind the RwLock)
    lock,        \* holder of the RwLock's write guard, or "free"
    disk,        \* contents of STATE_FILE
    pc,          \* position of each thread
    ep,          \* poll_and_push: endpoint (local)
    is_first,    \* poll_and_push: is_first_poll
    cutoff,      \* poll_and_push: cutoff_time
    since,       \* fetch_notifications: the since bound put in the url
    fetched,     \* number of GET /notifications calls made by the cycle
    fetchErr,    \* fetch_notifications returned Err
    batch,       \* poll_and_push: notifications
    idx,         \* poll_and_push: position of the for loop in notifications
    latest,      \* poll_and_push: latest_timestamp
    skipped,     \* poll_and_push: skipped
    pushed,      \* push_notification calls made by the cycle, in order
    arg,         \* POST /register: the parsed body (None when it does not parse)
    got,         \* GET /health: the endpoint read
    resp,        \* POST /register: the response sent (None before it is sent)
    clock,       \* a reading of the clock: <<days since the epoch, second of day>>
    wire_now,    \* format_unix_to_iso of the reading
    wire_cut     \* cutoff_time computed from the reading (lines 150-155)

shared == <<endpoint, last_poll, lock, disk>>
locals == <<ep, is_first, cutoff, since, fetched, fetchErr, batch, idx, latest,
            skipped, pushed>>
codec == <<clock, wire_now, wire_cut>>
vars == <<endpoint, last_poll, lock, disk, pc, ep, is_first, cutoff,
          since, fetched, fetchErr, batch, idx, latest, skipped, pushed, arg, got,
          resp, clock, wire_now, wire_cut>>

\* -------------------------------------------------------- PersistedState
\* what STATE_FILE can hold: nothing readable, or a saved PersistedState
NoFile == [valid |-> FALSE, endpoint |-> None, last_poll |-> None]
Saved(e, l) == [valid |-> TRUE, endpoint |-> e, last_poll |-> l]

\* PersistedState::load: the file's content, or Default when it is missing or
\* does not parse
load(file) ==
    IF file.valid THEN [endpoint |-> file.endpoint, last_poll |-> file.last_poll]
    ELSE [endpoint |-> None, last_poll |-> None]

\* files an earlier run of the program can have left behind: the cursor is
\* only ever saved by a cycle, and a cycle needs an endpoint
EarlierFiles ==
    {NoFile} \cup
    {Saved(e, l) : e \in {Some(x) : x \in OldEndpoints},
                   l \in {None} \cup {Some(t) : t \in Stamps}}
    \cup {Saved(None, None)}

\* AppState::new, and every thread before its first step
AppStart ==
    /\ disk \in EarlierFiles
    /\ endpoint = load(disk).endpoint
    /\ last_poll = load(disk).last_poll
    /\ lock = "free"
    /\ pc = [t \in Threads |-> "idle"]
    /\ ep = [p \in Pollers |-> None]
    /\ is_first = [p \in Pollers |-> FALSE]
    /\ cutoff = [p \in Pollers |-> None]
    /\ since = [p \in Pollers |-> None]
    /\ fetched = [p \in Pollers |-> 0]
    /\ fetchErr = [p \in Pollers |-> FALSE]
    /\ batch = [p \in Pollers |-> <<>>]
    /\ idx = [p \in Pollers |-> 1]
    /\ latest = [p \in Pollers |-> None]
    /\ skipped = [p \in Pollers |-> 0]
    /\ pushed = [p \in Pollers |-> <<>>]
    /\ arg = [r \in Registrars |-> None]
    /\ got = [h \in Healths |-> None]
    /\ resp = [r \in Registrars |-> None]

\* no cutoff computed yet
NoCutoff == [kind |-> "none", text |-> <<>>]

Init ==
    /\ AppStart
    /\ clock = <<0, 0>>
    /\ wire_now = None
    /\ wire_cut = NoCutoff


\* ---------------------------------------------------------------- AppState
\* get_endpoint / get_last_poll take the read guard for one clone(): they run
\* only while no thread holds the write guard
CanRead == lock = "free"

\* faulty variant of SaveOk: save rewrites only the field its caller set and
\* keeps the file's other field
SaveOk_OwnField(t) ==
    /\ pc[t] = "save"
    /\ lock = t
    /\ disk' = IF t \in Pollers THEN Saved(disk.endpoint, last_poll)
               ELSE Saved(endpoint, disk.last_poll)
    /\ lock' = "free"
    /\ pc' = [pc EXCEPT ![t] = IF t \in Pollers THEN "done" ELSE "respond"]
    /\ UNCHANGED <<endpoint, last_poll, locals, arg, got, resp, codec>>

\* PersistedState::save, called with the write guard held (lines 90, 100):
\* fs::write succeeds and the file holds the whole in-memory struct; the guard
\* is dropped on return
SaveOk(t) ==
    /\ pc[t] = "save"
    /\ lock = t
    /\ disk' = Saved(endpoint, last_poll)
    /\ lock' = "free"
    /\ pc' = [pc EXCEPT ![t] = IF t \in Pollers THEN "done" ELSE "respond"]
    /\ UNCHANGED <<endpoint, last_poll, locals, arg, got, resp, codec>>

\* faulty variant of SaveFail: a failed write restores the in-memory struct from the
\* file
SaveFail_RollsBack(t) ==
    /\ pc[t] = "save"
    /\ lock = t
    /\ endpoint' = load(disk).endpoint
    /\ last_poll' = load(disk).last_poll
    /\ lock' = "free"
    /\ pc' = [pc EXCEPT ![t] = IF t \in Pollers THEN "done" ELSE "respond"]
    /\ UNCHANGED <<disk, locals, arg, got, resp, codec>>

\* fs::write fails and `let _ =` drops the error: the file is as it was, or
\* was truncated by the failed write and no longer parses
SaveFail(t) ==
    /\ pc[t] = "save"
    /\ lock = t
    /\ disk' \in {disk, NoFile}
    /\ lock' = "free"
    /\ pc' = [pc EXCEPT ![t] = IF t \in Pollers THEN "done" ELSE "respond"]
    /\ UNCHANGED <<endpoint, last_poll, locals, arg, got, resp, codec>>

\* ----------------------------------------------------------- poll_and_push
\* faulty variant of PollStart: the None arm does not return
PollStart_NoReturn(p) ==
    /\ pc[p] = "idle"
    /\ CanRead
    /\ ep' = [ep EXCEPT ![p] = endpoint]
    /\ pc' = [pc EXCEPT ![p] = "first"]
    /\ UNCHANGED <<shared, is_first, cutoff, since, fetched, fetchErr, batch, idx,
                   latest, skipped, pushed, arg, got, resp, codec>>

\* lines 137-143: read the endpoint; return when there is none
PollStart(p) ==
    /\ pc[p] = "idle"
    /\ CanRead
    /\ ep' = [ep EXCEPT ![p] = endpoint]
    /\ pc' = [pc EXCEPT ![p] = IF IsSome(endpoint) THEN "first" ELSE "done"]
    /\ UNCHANGED <<shared, is_first, cutoff, since, fetched, fetchErr, batch, idx,
                   latest, skipped, pushed, arg, got, resp, codec>>

\* lines 147-158: is_first_poll and cutoff_time
CheckFirst(p) ==
    /\ pc[p] = "first"
    /\ CanRead
    /\ is_first' = [is_first EXCEPT ![p] = ~IsSome(last_poll)]
    /\ \E now \in NowSecs :
          cutoff' = [cutoff EXCEPT ![p] =
                        IF ~IsSome(last_poll)
                        THEN Some(format_unix_to_iso(now - CutoffWindow))
                        ELSE None]
    /\ pc' = [pc EXCEPT ![p] = "fetch"]
    /\ UNCHANGED <<shared, ep, since, fetched, fetchErr, batch, idx, latest,
                   skipped, pushed, arg, got, resp, codec>>

\* fetch_notifications (lines 104-121) answering Ok: the url carries the
\* cursor read at line 107, and the remote returns a batch
FetchOk(p) ==
    /\ pc[p] = "fetch"
    /\ CanRead
    /\ since' = [since EXCEPT ![p] = last_poll]
    /\ fetched' = [fetched EXCEPT ![p] = @ + 1]
    /\ \E b \in Batches : batch' = [batch EXCEPT ![p] = b]
    /\ pc' = [pc EXCEPT ![p] = "loop"]
    /\ UNCHANGED <<shared, ep, is_first, cutoff, fetchErr, idx, latest, skipped,
                   pushed, arg, got, resp, codec>>

\* faulty variant of FetchErr: the Err arm forgets the cursor
FetchErr_ClearsCursor(p) ==
    /\ pc[p] = "fetch"
    /\ CanRead
    /\ since' = [since EXCEPT ![p] = last_poll]
    /\ fetched' = [fetched EXCEPT ![p] = @ + 1]
    /\ fetchErr' = [fetchErr EXCEPT ![p] = TRUE]
    /\ last_poll' = None
    /\ pc' = [pc EXCEPT ![p] = "done"]
    /\ UNCHANGED <<endpoint, lock, disk, ep, is_first, cutoff, batch, idx, latest,
                   skipped, pushed, arg, got, resp, codec>>

\* fetch_notifications answering Err (lines 117, 120), logged at line 213
FetchErr(p) ==
    /\ pc[p] = "fetch"
    /\ CanRead
    /\ since' = [since EXCEPT ![p] = last_poll]
    /\ fetched' = [fetched EXCEPT ![p] = @ + 1]
    /\ fetchErr' = [fetchErr EXCEPT ![p] = TRUE]
    /\ pc' = [pc EXCEPT ![p] = "done"]
    /\ UNCHANGED <<shared, ep, is_first, cutoff, batch, idx, latest, skipped,
                   pushed, arg, got, resp, codec>>

\* the record the for loop of line 165 is at
InLoop(p) == pc[p] = "loop" /\ idx[p] <= Len(batch[p])

\* faulty variant of notif: the for loop walks the batch from its end
notif_Reversed(p) == batch[p][Len(batch[p]) + 1 - idx[p]]

notif(p) == batch[p][idx[p]]

\* faulty variant of Later: the candidate cursor is the record seen last, not the
\* greatest one
Later_LastSeen(lt, updated_at) == Some(updated_at)

\* lines 170-174: latest_timestamp after looking at one unread record
Later(lt, updated_at) ==
    IF ~IsSome(lt) \/ StrGt(updated_at, Unwrap(lt)) THEN Some(updated_at) ELSE lt

\* faulty variant of TooOld: `<=` for `<`: a record exactly at the cutoff is skipped
TooOld_Inclusive(co, updated_at) == IsSome(co) /\ ~StrLt(Unwrap(co), updated_at)

\* lines 177-178: the record is older than the first poll's cutoff
TooOld(co, updated_at) == IsSome(co) /\ StrLt(updated_at, Unwrap(co))

\* faulty variant of SkipRead: the unread test comes after the candidate cursor is
\* updated, so a read record moves the cursor
SkipRead_TracksLatest(p) ==
    /\ InLoop(p)
    /\ ~notif(p).unread
    /\ latest' = [latest EXCEPT ![p] = Later(@, notif(p).updated_at)]
    /\ idx' = [idx EXCEPT ![p] = @ + 1]
    /\ UNCHANGED <<shared, pc, ep, is_first, cutoff, since, fetched, fetchErr,
                   batch, skipped, pushed, arg, got, resp, codec>>

\* lines 166-168: a read record is passed over
SkipRead(p) ==
    /\ InLoop(p)
    /\ ~notif(p).unread
    /\ idx' = [idx EXCEPT ![p] = @ + 1]
    /\ UNCHANGED <<shared, pc, ep, is_first, cutoff, since, fetched, fetchErr,
                   batch, latest, skipped, pushed, arg, got, resp, codec>>

\* lines 170-181: an unread record older than the cutoff moves the candidate
\* cursor and is counted as skipped
SkipOld(p) ==
    /\ InLoop(p)
    /\ notif(p).unread
    /\ TooOld(cutoff[p], notif(p).updated_at)
    /\ latest' = [latest EXCEPT ![p] = Later(@, notif(p).updated_at)]
    /\ skipped' = [skipped EXCEPT ![p] = @ + 1]
    /\ idx' = [idx EXCEPT ![p] = @ + 1]
    /\ UNCHANGED <<shared, pc, ep, is_first, cutoff, since, fetched, fetchErr,
                   batch, pushed, arg, got, resp, codec>>

\* lines 166-182 let the record through to the push
Pushable(p) ==
    /\ InLoop(p)
    /\ notif(p).unread
    /\ ~TooOld(cutoff[p], notif(p).updated_at)

\* faulty variant of Pushed: push_notification is given the endpoint stored at
\* the time of the call
Pushed_CurrentEndpoint(p, ok) ==
    /\ latest' = [latest EXCEPT ![p] = Later(@, notif(p).updated_at)]
    /\ pushed' = [pushed EXCEPT ![p] =
                     Append(@, [id |-> notif(p).id, to |-> Unwrap(endpoint), ok |-> ok])]
    /\ idx' = [idx EXCEPT ![p] = @ + 1]
    /\ UNCHANGED <<shared, pc, ep, is_first, cutoff, since, fetched, fetchErr,
                   batch, skipped, arg, got, resp, codec>>

\* lines 170-202: the candidate cursor moves and push_notification is called
\* once with the record's id and the endpoint read at line 137; ok is its
\* outcome, which line 192 only logs
Pushed(p, ok) ==
    /\ latest' = [latest EXCEPT ![p] = Later(@, notif(p).updated_at)]
    /\ pushed' = [pushed EXCEPT ![p] =
                     Append(@, [id |-> notif(p).id, to |-> Unwrap(ep[p]), ok |-> ok])]
    /\ idx' = [idx EXCEPT ![p] = @ + 1]
    /\ UNCHANGED <<shared, pc, ep, is_first, cutoff, since, fetched, fetchErr,
                   batch, skipped, arg, got, resp, codec>>

\* push_notification returns Ok (lines 193-198)
PushOk(p) ==
    /\ Pushable(p)
    /\ Pushed(p, TRUE)

\* faulty variant of PushFail: the Err arm leaves the for loop
PushFail_Aborts(p) ==
    /\ Pushable(p)
    /\ latest' = [latest EXCEPT ![p] = Later(@, notif(p).updated_at)]
    /\ pushed' = [pushed EXCEPT ![p] =
                     Append(@, [id |-> notif(p).id, to |-> Unwrap(ep[p]), ok |-> FALSE])]
    /\ idx' = [idx EXCEPT ![p] = Len(batch[p]) + 1]
    /\ UNCHANGED <<shared, pc, ep, is_first, cutoff, since, fetched, fetchErr,
                   batch, skipped, arg, got, resp, codec>>

\* push_notification returns Err (lines 199-201)
PushFail(p) ==
    /\ Pushable(p)
    /\ Pushed(p, FALSE)

\* faulty variant of LoopEndNone: line 205 stores a default when there is no
\* candidate: the cursor becomes the empty string
LoopEndNone_StoresDefault(p) ==
    /\ pc[p] = "loop"
    /\ idx[p] > Len(batch[p])
    /\ ~IsSome(latest[p])
    /\ last_poll' = Some(<<>>)
    /\ pc' = [pc EXCEPT ![p] = "done"]
    /\ UNCHANGED <<endpoint, lock, disk, locals, arg, got, resp, codec>>

\* line 205 with None: no unread record was seen, nothing is written
LoopEndNone(p) ==
    /\ pc[p] = "loop"
    /\ idx[p] > Len(batch[p])
    /\ ~IsSome(latest[p])
    /\ pc' = [pc EXCEPT ![p] = "done"]
    /\ UNCHANGED <<shared, locals, arg, got, resp, codec>>

\* lines 205-206 and 97-99: set_last_poll takes the write guard and assigns
SetLastPoll(p) ==
    /\ pc[p] = "loop"
    /\ idx[p] > Len(batch[p])
    /\ IsSome(latest[p])
    /\ lock = "free"
    /\ lock' = p
    /\ last_poll' = latest[p]
    /\ pc' = [pc EXCEPT ![p] = "save"]
    /\ UNCHANGED <<endpoint, disk, locals, arg, got, resp, codec>>

\* faulty variant of PollReturn: start_poller leaves its loop after the cycle
PollReturn_Exits(p) ==
    /\ pc[p] = "done"
    /\ pc' = [pc EXCEPT ![p] = "ended"]
    /\ UNCHANGED <<shared, locals, arg, got, resp, codec>>

\* poll_and_push returns and its locals are dropped: start_poller sleeps and
\* loops (lines 274-277), POST /poll answers 200 (lines 363, 368) and its
\* thread ends
PollReturn(p) ==
    /\ pc[p] = "done"
    /\ pc' = [pc EXCEPT ![p] = IF p = "bg" THEN "idle" ELSE "ended"]
    /\ ep' = [ep EXCEPT ![p] = None]
    /\ is_first' = [is_first EXCEPT ![p] = FALSE]
    /\ cutoff' = [cutoff EXCEPT ![p] = None]
    /\ since' = [since EXCEPT ![p] = None]
    /\ fetched' = [fetched EXCEPT ![p] = 0]
    /\ fetchErr' = [fetchErr EXCEPT ![p] = FALSE]
    /\ batch' = [batch EXCEPT ![p] = <<>>]
    /\ idx' = [idx EXCEPT ![p] = 1]
    /\ latest' = [latest EXCEPT ![p] = None]
    /\ skipped' = [skipped EXCEPT ![p] = 0]
    /\ pushed' = [pushed EXCEPT ![p] = <<>>]
    /\ UNCHANGED <<shared, arg, got, resp, codec>>

\* ---------------------------------------------------------- POST /register
\* faulty variant of RegisterOk: set_endpoint fills the field only when it is
\* empty
RegisterOk_KeepsOld(r) ==
    /\ pc[r] = "idle"
    /\ lock = "free"
    /\ \E e \in Endpoints :
          /\ arg' = [arg EXCEPT ![r] = Some(e)]
          /\ endpoint' = IF IsSome(endpoint) THEN endpoint ELSE Some(e)
    /\ lock' = r
    /\ pc' = [pc EXCEPT ![r] = "save"]
    /\ UNCHANGED <<last_poll, disk, locals, got, resp, codec>>

\* faulty variant of RegisterOk: a new endpoint starts from an empty cursor
RegisterOk_ResetsCursor(r) ==
    /\ pc[r] = "idle"
    /\ lock = "free"
    /\ \E e \in Endpoints :
          /\ arg' = [arg EXCEPT ![r] = Some(e)]
          /\ endpoint' = Some(e)
    /\ last_poll' = None
    /\ lock' = r
    /\ pc' = [pc EXCEPT ![r] = "save"]
    /\ UNCHANGED <<disk, locals, got, resp, codec>>

\* lines 341-345 and 87-89: the body parses; set_endpoint takes the write
\* guard and assigns
RegisterOk(r) ==
    /\ pc[r] = "idle"
    /\ lock = "free"
    /\ \E e \in Endpoints :
          /\ arg' = [arg EXCEPT ![r] = Some(e)]
          /\ endpoint' = Some(e)
    /\ lock' = r
    /\ pc' = [pc EXCEPT ![r] = "save"]
    /\ UNCHANGED <<last_poll, disk, locals, got, resp, codec>>

\* faulty variant of RegisterBad: a body that does not parse registers the
\* default RegisterRequest, whose endpoint is the empty string
RegisterBad_StoresDefault(r) ==
    /\ pc[r] = "idle"
    /\ lock = "free"
    /\ arg' = [arg EXCEPT ![r] = None]
    /\ endpoint' = Some("")
    /\ lock' = r
    /\ pc' = [pc EXCEPT ![r] = "save"]
    /\ UNCHANGED <<last_poll, disk, locals, got, resp, codec>>

\* lines 354-357: the body does not parse as a RegisterRequest
RegisterBad(r) ==
    /\ pc[r] = "idle"
    /\ arg' = [arg EXCEPT ![r] = None]
    /\ pc' = [pc EXCEPT ![r] = "respond"]
    /\ UNCHANGED <<shared, locals, got, resp, codec>>

\* the response built by the match of lines 345-358: 200 with
\* {"success": true, "endpoint": ...} for a parsed body, 400 with
\* {"error": ...} for any other
Response(parsed) ==
    IF IsSome(parsed)
    THEN [status |-> 200, success |-> TRUE, endpoint |-> parsed]
    ELSE [status |-> 400, error |-> "Invalid JSON"]

\* line 368: 200 with the endpoint of the request (lines 346-352), or 400
\* (lines 354-357); the thread ends
RegisterRespond(r) ==
    /\ r \in Registrars
    /\ pc[r] = "respond"
    /\ resp' = [resp EXCEPT ![r] = Some(Response(arg[r]))]
    /\ pc' = [pc EXCEPT ![r] = "ended"]
    /\ UNCHANGED <<shared, locals, arg, got, codec>>

\* ------------------------------------------------------------- GET /health
\* line 329
Health(h) ==
    /\ pc[h] = "idle"
    /\ CanRead
    /\ got' = [got EXCEPT ![h] = endpoint]
    /\ pc' = [pc EXCEPT ![h] = "respond"]
    /\ UNCHANGED <<shared, locals, arg, resp, codec>>

\* line 368; the thread ends
HealthRespond(h) ==
    /\ h \in Healths
    /\ pc[h] = "respond"
    /\ pc' = [pc EXCEPT ![h] = "ended"]
    /\ UNCHANGED <<shared, locals, arg, got, resp, codec>>

\* ------------------------------------------------------------------ steps
PollerStep(p) ==
    \/ PollStart(p)
    \/ CheckFirst(p)
    \/ FetchOk(p)
    \/ FetchErr(p)
    \/ SkipRead(p)
    \/ SkipOld(p)
    \/ PushOk(p)
    \/ PushFail(p)
    \/ LoopEndNone(p)
    \/ SetLastPoll(p)
    \/ SaveOk(p)
    \/ SaveFail(p)
    \/ PollReturn(p)

RegistrarStep(r) ==
    \/ RegisterOk(r)
    \/ RegisterBad(r)
    \/ SaveOk(r)
    \/ SaveFail(r)
    \/ RegisterRespond(r)

HealthStep(h) ==
    \/ Health(h)
    \/ HealthRespond(h)

\* The background poller and one registration request.
Next ==
    \/ PollerStep("bg")
    \/ RegistrarStep("r1")

Spec == Init /\ [][Next]_vars

\* The poller alone, with the scheduling that progress relies on: its thread
\* keeps being run, so whichever step of start_poller's loop is possible is
\* eventually taken (the fetch and the push return, fs::write returns, the
\* sleep ends).
NextPoller == PollerStep("bg")

Fairness == WF_vars(PollerStep("bg"))

SpecLive == Init /\ [][NextPoller]_vars /\ Fairness

\* Two registration requests and one health request, no poller.
NextReg ==
    \/ RegistrarStep("r1")
    \/ RegistrarStep("r2")
    \/ HealthStep("h1")

SpecReg == Init /\ [][NextReg]_vars


\* ------------------------------------------------------ overlapping cycles
\* longest batch the remote returns to a cycle that may overlap another
MaxOverlapBatch == 1

\* what a remote that applies the since bound of the url (line 107-111) can
\* answer: a short batch with no record older than the bound
SinceBatches(bound) ==
    {b \in Batches :
        /\ Len(b) <= MaxOverlapBatch
        /\ \A k \in 1..Len(b) :
              IF IsSome(bound) THEN ~StrLt(b[k].updated_at, Unwrap(bound)) ELSE TRUE}

\* fetch_notifications answering Ok from such a remote
FetchSince(p) ==
    /\ pc[p] = "fetch"
    /\ CanRead
    /\ since' = [since EXCEPT ![p] = last_poll]
    /\ fetched' = [fetched EXCEPT ![p] = @ + 1]
    /\ \E b \in SinceBatches(last_poll) : batch' = [batch EXCEPT ![p] = b]
    /\ pc' = [pc EXCEPT ![p] = "loop"]
    /\ UNCHANGED <<shared, ep, is_first, cutoff, fetchErr, idx, latest, skipped,
                   pushed, arg, got, resp, codec>>

\* poll_and_push against such a remote, on a file system whose writes
\* succeed: a failed save differs from a successful one only in the file,
\* which no cycle reads
SincePollerStep(p) ==
    \/ PollStart(p)
    \/ CheckFirst(p)
    \/ FetchSince(p)
    \/ FetchErr(p)
    \/ SkipRead(p)
    \/ SkipOld(p)
    \/ PushOk(p)
    \/ PushFail(p)
    \/ LoopEndNone(p)
    \/ SetLastPoll(p)
    \/ SaveOk(p)
    \/ PollReturn(p)

\* The background poller and one POST /poll request: a scheduled and a manual
\* cycle that may overlap.
NextOverlap ==
    \/ SincePollerStep("bg")
    \/ SincePollerStep("m1")

SpecOverlap == Init /\ [][NextOverlap]_vars

\* ------------------------------------- format_unix_to_iso and the cutoff alone
\* the program has started and the clock shows one of the readings
InitCodec ==
    /\ AppStart
    /\ disk = NoFile
    /\ clock \in Clocks
    /\ wire_now = None
    /\ wire_cut = NoCutoff

\* format_unix_to_iso applied to the reading
FormatNow ==
    /\ wire_now = None
    /\ wire_now' = Some(format_instant(clock))
    /\ UNCHANGED <<shared, pc, locals, arg, got, resp, clock, wire_cut>>

\* lines 150-155: secs_ago and its wire form
CutoffTime ==
    /\ wire_cut = NoCutoff
    /\ ~Underflows(clock)
    /\ wire_cut' = [kind |-> "time", text |-> format_instant(SecsAgo(clock))]
    /\ UNCHANGED <<shared, pc, locals, arg, got, resp, clock, wire_now>>

\* line 154 with a reading below 60: the u64 subtraction overflows, which
\* panics in a build with overflow checks and wraps to 2^64 - 60 + secs in one
\* without; the wrapped value is beyond the model's arithmetic, so its text
\* is left out
CutoffUnderflow ==
    /\ wire_cut = NoCutoff
    /\ Underflows(clock)
    /\ \E k \in {"panic", "wrapped"} : wire_cut' = [kind |-> k, text |-> <<>>]
    /\ UNCHANGED <<shared, pc, locals, arg, got, resp, clock, wire_now>>

NextCodec ==
    \/ FormatNow
    \/ CutoffTime
    \/ CutoffUnderflow

SpecCodec == InitCodec /\ [][NextCodec]_vars

\* ------------------------------------------------------- statement helpers
\* positions and timestamps of the unread records of a batch
UnreadIdx(b) == {k \in 1..Len(b) : b[k].unread}
UnreadStamps(b) == {b[k].updated_at : k \in UnreadIdx(b)}

\* the lexicographically greatest string of a non-empty set
MaxStamp(S) == CHOOSE m \in S : \A x \in S : ~StrLt(m, x)

\* order on cursors: absent is below every timestamp
CursorLe(a, b) == ~IsSome(a) \/ (IsSome(b) /\ ~StrLt(Unwrap(b), Unwrap(a)))

\* the wire form of each instant of the model, and of each cutoff
StampOf == [s \in StampSecs |-> format_unix_to_iso(s)]
CutoffOf == [n \in NowSecs |-> format_unix_to_iso(n - CutoffWindow)]

\* the instant (seconds since the epoch) a timestamp of the model denotes
SecsOf(stamp) == CHOOSE s \in StampSecs : StampOf[s] = stamp

\* the clock reading behind a cutoff string
NowOf(co) == CHOOSE n \in NowSecs : CutoffOf[n] = co

\* the cycle of p got a batch and is through its for loop
LoopOver(p) ==
    /\ fetched[p] = 1
    /\ ~fetchErr[p]
    /\ \/ pc[p] = "loop" /\ idx[p] > Len(batch[p])
       \/ pc[p] \in {"save", "done"}

\* the cycle of p got a batch and has returned from set_last_poll or skipped it
CycleOver(p) == fetched[p] = 1 /\ ~fetchErr[p] /\ pc[p] = "done"

\* ids of the push calls of a cycle, in call order
PushedIds(p) == [k \in 1..Len(pushed[p]) |-> pushed[p][k].id]

\* ids of a batch's records that satisfy Keep, in batch order
IdsWhere(b, Keep(_)) ==
    LET kept == SelectSeq(b, Keep) IN [k \in 1..Len(kept) |-> kept[k].id]

\* the remote honoured the since bound of the request: no unread record of the
\* batch is older than it
HonoursSince(p) ==
    \A k \in UnreadIdx(batch[p]) : CursorLe(since[p], Some(batch[p][k].updated_at))

\* the step is one of thread p's poll cycle
PollerMoved(p) == pc'[p] # pc[p] \/ idx'[p] # idx[p]

\* the in-memory config and the file
config == <<endpoint, last_poll, disk>>

\* up to and including its fetch, a cycle writes neither the config nor the
\* file
QuietUntilFetched(p) ==
    (PollerMoved(p) /\ pc[p] \in {"idle", "first", "fetch"}) => UNCHANGED config

\* the record passes the first poll's cutoff, in seconds: it is not older
\* than 60 s before the clock reading of the cycle
Recent(p, n) ==
    is_first[p] => SecsOf(n.updated_at) >= NowOf(Unwrap(cutoff[p])) - CutoffWindow

\* set_endpoint of request r has returned
Registered(r) == pc[r] \in {"respond", "ended"} /\ IsSome(arg[r])

\* set_endpoint of request r has taken the write guard
Assigned(r) == pc[r] \in {"save", "respond", "ended"} /\ IsSome(arg[r])

\* the leap year rule of the Gregorian calendar
GregorianLeap(y) == (y % 4 = 0 /\ y % 100 # 0) \/ y % 400 = 0

\* length of month m of year y
MonthLen(y, m) ==
    IF m = 2 THEN (IF GregorianLeap(y) THEN 29 ELSE 28)
    ELSE IF m \in {4, 6, 9, 11} THEN 30 ELSE 31

\* number of leap years among the years 1 .. y-1
LeapsBefore(y) == ((y - 1) \div 4) - ((y - 1) \div 100) + ((y - 1) \div 400)

\* days of year y before its month m
RECURSIVE DaysBeforeMonth(_, _)
DaysBeforeMonth(y, m) ==
    IF m <= 1 THEN 0 ELSE DaysBeforeMonth(y, m - 1) + MonthLen(y, m - 1)

\* days from 1970-01-01 to the day d of month m of year y
DaysFromCivil(y, m, d) ==
    365 * (y - 1970) + LeapsBefore(y) - LeapsBefore(1970)
    + DaysBeforeMonth(y, m) + (d - 1)

\* the number a string of decimal digits denotes
RECURSIVE Num(_)
Num(s) == IF s = <<>> THEN 0 ELSE 10 * Num(SubSeq(s, 1, Len(s) - 1)) + (s[Len(s)] - 48)

\* the fields read back from a text of the form Y..Y-MM-DDTHH:MM:SSZ
ParseWire(s) ==
    LET n == Len(s) - 16
    IN  [year |-> Num(SubSeq(s, 1, n)),
         month |-> Num(SubSeq(s, n + 2, n + 3)),
         day |-> Num(SubSeq(s, n + 5, n + 6)),
         hours |-> Num(SubSeq(s, n + 8, n + 9)),
         minutes |-> Num(SubSeq(s, n + 11, n + 12)),
         seconds |-> Num(SubSeq(s, n + 14, n + 15))]

\* the text reads back as the calendar date and time of day of instant t
DenotesInstant(s, t) ==
    LET f == ParseWire(s)
    IN  /\ Len(s) >= 20
        /\ <<s[Len(s) - 15], s[Len(s) - 12], s[Len(s) - 9], s[Len(s) - 6],
             s[Len(s) - 3], s[Len(s)]>> = <<45, 45, 84, 58, 58, 90>>
        /\ f = CivilFieldsAt(t[1], t[2])
        /\ f.month \in 1..12
        /\ f.day \in 1..MonthLen(f.year, f.month)
        /\ DaysFromCivil(f.year, f.month, f.day) = t[1]
        /\ f.hours \in 0..23 /\ f.minutes \in 0..59 /\ f.seconds \in 0..59
        /\ 3600 * f.hours + 60 * f.minutes + f.seconds = t[2]

\* ------------------------------------------------------------------ claims
\* C1 as stated: after a cycle whose batch has an unread record, the stored
\* cursor is not below the cursor the cycle started from (the one it sent as
\* since).  Fails: the cycle stores the batch's maximum without comparing it
\* to the stored cursor.
C1_AnyBatch ==
    \A p \in Pollers :
        (CycleOver(p) /\ UnreadIdx(batch[p]) # {}) => CursorLe(since[p], last_poll)

\* C1 (amended): over any sequence of poll cycles whose batches hold no unread
\* record older than the since bound the cycle sent, the stored cursor after
\* a cycle is never lexicographically smaller than the cursor before it.
C1_CursorMonotone ==
    \A p \in Pollers :
        (CycleOver(p) /\ HonoursSince(p)) => CursorLe(since[p], last_poll)

\* a cycle that started from a cursor and moved it forward
C1_Witness ==
    \E p \in Pollers :
        /\ CycleOver(p) /\ HonoursSince(p)
        /\ IsSome(since[p])
        /\ StrLt(Unwrap(since[p]), Unwrap(last_poll))


\* C2: in a cycle that found the cursor absent (with an endpoint registered),
\* exactly the unread records whose updated_at is not before now - 60 s are
\* pushed, the older unread ones are counted as skipped, all unread records
\* count towards the candidate cursor, and the cursor written is the greatest
\* updated_at of the unread records; in a cycle that found a cursor, every
\* unread record is pushed and none is skipped.
C2_FirstPollCutoff ==
    \A p \in Pollers :
        LoopOver(p) =>
            LET b == batch[p]
                Unread(n) == n.unread
            IN  IF is_first[p]
                THEN LET from == NowOf(Unwrap(cutoff[p])) - CutoffWindow
                         Fresh(n) == n.unread /\ SecsOf(n.updated_at) >= from
                         Stale == {k \in UnreadIdx(b) : SecsOf(b[k].updated_at) < from}
                     IN  /\ PushedIds(p) = IdsWhere(b, Fresh)
                         /\ skipped[p] = Cardinality(Stale)
                         /\ latest[p] = IF UnreadIdx(b) = {} THEN None
                                        ELSE Some(MaxStamp(UnreadStamps(b)))
                         /\ (pc[p] \in {"save", "done"} /\ UnreadIdx(b) # {})
                               => last_poll = Some(MaxStamp(UnreadStamps(b)))
                ELSE /\ PushedIds(p) = IdsWhere(b, Unread)
                     /\ skipped[p] = 0

\* a first poll over two unread records: the first is older than the cutoff
\* and skipped, the second is pushed, and the cursor is at the second
C2_Witness ==
    \E p \in Pollers :
        /\ CycleOver(p) /\ is_first[p]
        /\ Len(batch[p]) = 2
        /\ skipped[p] = 1
        /\ PushedIds(p) = <<2>>
        /\ last_poll = Some(batch[p][2].updated_at)

\* C3: after a cycle whose fetch returned at least one unread record, the
\* stored cursor is the greatest updated_at among the batch's unread records,
\* pushed or skipped alike; read records do not count.
C3_CursorIsBatchMax ==
    \A p \in Pollers :
        (fetched[p] = 1 /\ ~fetchErr[p] /\ pc[p] \in {"save", "done"}
            /\ UnreadIdx(batch[p]) # {})
        => last_poll = Some(MaxStamp(UnreadStamps(batch[p])))

\* the greatest unread record comes first, a newer read record follows
C3_Witness ==
    \E p \in Pollers :
        /\ CycleOver(p)
        /\ Len(batch[p]) = 2
        /\ batch[p][1].unread /\ ~batch[p][2].unread
        /\ StrLt(batch[p][1].updated_at, batch[p][2].updated_at)
        /\ last_poll = Some(batch[p][1].updated_at)

\* C4: a cycle whose batch is not empty and holds read records only pushes
\* nothing, never calls set_last_poll, and leaves the cursor as it found it.
C4_ReadOnlyBatch ==
    \A p \in Pollers :
        (LoopOver(p) /\ Len(batch[p]) > 0 /\ UnreadIdx(batch[p]) = {})
        => /\ pushed[p] = <<>>
           /\ latest[p] = None
           /\ pc[p] # "save"
           /\ last_poll = since[p]

\* such a cycle has returned, with a cursor stored before it
C4_Witness ==
    \E p \in Pollers :
        /\ CycleOver(p)
        /\ Len(batch[p]) = 2 /\ UnreadIdx(batch[p]) = {}
        /\ IsSome(last_poll)


\* C5: a cycle started while no endpoint is registered returns at once: it
\* makes no fetch call and no push call and leaves endpoint, cursor and file
\* as they are.
C5_NoEndpointNoOp ==
    /\ [](\A p \in Pollers :
            (pc[p] = "done" /\ ~IsSome(ep[p]))
            => fetched[p] = 0 /\ pushed[p] = <<>> /\ ~IsSome(latest[p]))
    /\ [][\A p \in Pollers :
            (pc[p] = "idle" /\ pc'[p] # "idle" /\ ~IsSome(endpoint))
            => /\ pc'[p] = "done"
               /\ fetched'[p] = 0
               /\ pushed'[p] = <<>>
               /\ UNCHANGED config]_vars

\* a cycle has returned for want of an endpoint
C5_Witness == \E p \in Pollers : pc[p] = "done" /\ ~IsSome(ep[p])

\* C6: a cycle whose fetch returns no record makes no push call, does not call
\* set_last_poll, and none of its steps changes endpoint, cursor or file; the
\* cursor after it is the one it sent as since.
C6_EmptyBatch ==
    /\ [](\A p \in Pollers :
            (LoopOver(p) /\ batch[p] = <<>>)
            => /\ pushed[p] = <<>>
               /\ ~IsSome(latest[p])
               /\ pc[p] # "save"
               /\ last_poll = since[p])
    /\ [][\A p \in Pollers :
            /\ QuietUntilFetched(p)
            /\ (PollerMoved(p) /\ fetched[p] = 1 /\ ~fetchErr[p] /\ batch[p] = <<>>)
                  => UNCHANGED config]_vars

\* an empty-batch cycle has returned, with a cursor stored
C6_Witness ==
    \E p \in Pollers : CycleOver(p) /\ batch[p] = <<>> /\ IsSome(last_poll)

\* C7: when the fetch fails the cycle ends there: one fetch call, no push
\* call, endpoint, cursor and file unchanged by every step of the cycle; and
\* every fetch, so also the next cycle's, sends the stored cursor as since.
C7_FetchError ==
    /\ [](\A p \in Pollers :
            fetchErr[p]
            => /\ pc[p] = "done"
               /\ fetched[p] = 1
               /\ pushed[p] = <<>>
               /\ ~IsSome(latest[p])
               /\ last_poll = since[p])
    /\ [][\A p \in Pollers :
            /\ QuietUntilFetched(p)
            /\ (PollerMoved(p) /\ fetchErr[p]) => UNCHANGED config
            /\ (pc[p] = "fetch" /\ pc'[p] # "fetch")
                  => since'[p] = last_poll /\ fetched'[p] = 1]_vars

\* a cycle has ended on a fetch error, with a cursor stored
C7_Witness ==
    \E p \in Pollers : pc[p] = "done" /\ fetchErr[p] /\ IsSome(last_poll)

\* C8: in a cycle with a failed push, the push calls are still exactly one per
\* qualifying record (unread and, on a first poll, not older than the cutoff),
\* in batch order, and the cursor written is still the greatest updated_at of
\* the unread records.
C8_PushFailure ==
    \A p \in Pollers :
        (LoopOver(p) /\ \E k \in 1..Len(pushed[p]) : ~pushed[p][k].ok)
        => LET Qualifies(n) == n.unread /\ Recent(p, n)
           IN  /\ PushedIds(p) = IdsWhere(batch[p], Qualifies)
               /\ pc[p] \in {"save", "done"}
                     => last_poll = Some(MaxStamp(UnreadStamps(batch[p])))

\* the first push of a cycle failed, the second record was pushed all the
\* same, and the cursor is at the second record
C8_Witness ==
    \E p \in Pollers :
        /\ CycleOver(p)
        /\ Len(pushed[p]) = 2
        /\ ~pushed[p][1].ok
        /\ StrLt(batch[p][1].updated_at, batch[p][2].updated_at)
        /\ last_poll = Some(batch[p][2].updated_at)


\* C9: with two registrations in flight, the endpoint stored is always the
\* value of the request that took the write guard last, so once both
\* set_endpoint calls have returned it is one of the two values; and a
\* get_endpoint returns the value found at start-up or the value of a
\* registration that has taken the guard, never anything else.
C9_ConcurrentRegistration ==
    /\ [](/\ \A r \in Registrars : lock = r => endpoint = arg[r]
          /\ (Registered("r1") /\ Registered("r2"))
                => endpoint \in {arg["r1"], arg["r2"]}
          /\ \A h \in Healths :
                pc[h] \in {"respond", "ended"}
                => /\ got[h] \in {None} \cup {Some(e) : e \in OldEndpoints}
                                 \cup {arg[r] : r \in {x \in Registrars : Assigned(x)}}
                   /\ got[h] = endpoint \/ \E r \in Registrars : Assigned(r))
    /\ [][/\ \A r \in Registrars :
                (pc[r] = "idle" /\ pc'[r] = "save") => endpoint' = arg'[r]
          /\ endpoint' # endpoint
                => \E r \in Registrars : pc[r] = "idle" /\ pc'[r] = "save"]_vars

\* both registrations have returned with different values, and the health
\* request read the value that the other registration has since replaced
C9_Witness ==
    /\ Registered("r1") /\ Registered("r2")
    /\ arg["r1"] # arg["r2"]
    /\ pc["h1"] = "respond"
    /\ got["h1"] \in {arg["r1"], arg["r2"]}
    /\ got["h1"] # endpoint

\* C10: a failed save changes nothing in memory and is not propagated: every
\* save step, failed or not, drops the guard and returns to its caller, which
\* goes on to its normal end (the 200 response, the return of the cycle);
\* after set_endpoint or set_last_poll has returned the in-memory field holds
\* the value written, and a get_endpoint made afterwards returns it.
C10_SaveFailure ==
    /\ [](/\ \A r \in Registrars : Registered(r) => endpoint = arg[r]
          /\ \A p \in Pollers :
                (pc[p] = "done" /\ IsSome(latest[p])) => last_poll = latest[p])
    /\ [][/\ \A t \in Threads :
                (pc[t] = "save" /\ pc'[t] # "save")
                => /\ lock' = "free"
                   /\ pc'[t] = IF t \in Pollers THEN "done" ELSE "respond"
                   /\ endpoint' = endpoint
                   /\ last_poll' = last_poll
          /\ \A p \in Pollers :
                (pc[p] = "idle" /\ pc'[p] # "idle")
                => \A r \in Registrars : Registered(r) => ep'[p] = arg[r]]_vars

\* the saves of a registration and of a cycle both failed: the file holds
\* neither the endpoint nor the cursor that memory holds, the registration
\* has been answered, and the cycle ran with the registered endpoint
C10_Witness ==
    /\ pc["r1"] = "ended" /\ IsSome(arg["r1"])
    /\ pc["bg"] = "done" /\ IsSome(latest["bg"])
    /\ ep["bg"] = arg["r1"]
    /\ disk.endpoint # endpoint
    /\ disk.last_poll # last_poll

\* C11: the endpoint changes only in a step of set_endpoint made for a parsed
\* registration, to the value registered; the cursor changes only in a step of
\* set_last_poll made by a cycle that is through a batch holding an unread
\* record; set_endpoint, its save included, leaves the cursor as it is and
\* set_last_poll leaves the endpoint as it is, whatever the other threads do
\* meanwhile; neither field goes from present to absent.
C11_FieldLifecycle ==
    [][/\ endpoint' # endpoint
          => \E r \in Registrars :
                /\ pc[r] = "idle" /\ pc'[r] = "save"
                /\ IsSome(arg'[r]) /\ endpoint' = arg'[r]
       /\ last_poll' # last_poll
          => \E p \in Pollers :
                /\ pc[p] = "loop" /\ pc'[p] = "save"
                /\ idx[p] > Len(batch[p])
                /\ UnreadIdx(batch[p]) # {}
       /\ \A r \in Registrars :
             (pc'[r] = "save" \/ pc[r] = "save") => last_poll' = last_poll
       /\ \A p \in Pollers :
             (pc'[p] = "save" \/ pc[p] = "save") => endpoint' = endpoint
       /\ IsSome(endpoint) => IsSome(endpoint')
       /\ IsSome(last_poll) => IsSome(last_poll')]_vars

\* a cycle is inside set_last_poll with a new cursor while a registration that
\* replaced the endpoint during the cycle has not been answered yet
C11_Witness ==
    /\ pc["bg"] = "save" /\ last_poll = latest["bg"]
    /\ pc["r1"] = "respond" /\ endpoint = arg["r1"]
    /\ ep["bg"] # endpoint
    /\ since["bg"] # last_poll

\* C12: a POST /register whose body does not parse is answered 400, and no
\* step of that request changes the endpoint or the cursor, in memory or in
\* the file; a request whose body parses stores the endpoint of the body and
\* is answered 200 with that same endpoint.
C12_Registration ==
    /\ [](\A r \in Registrars :
            /\ pc[r] = "save" => IsSome(arg[r])
            /\ IsSome(resp[r])
               => IF IsSome(arg[r])
                  THEN /\ Unwrap(resp[r]).status = 200
                       /\ Unwrap(resp[r]).endpoint = arg[r]
                  ELSE Unwrap(resp[r]).status = 400)
    /\ [][\A r \in Registrars :
            /\ (pc'[r] # pc[r] /\ ~IsSome(arg'[r])) => UNCHANGED config
            /\ (pc[r] = "idle" /\ pc'[r] = "save")
               => /\ Unwrap(arg'[r]) \in Endpoints
                  /\ endpoint' = arg'[r]
                  /\ last_poll' = last_poll]_vars

\* one request was answered 400 and another 200; memory and the file hold the
\* endpoint of the second and the cursor the program started with
C12_Witness ==
    /\ pc["r1"] = "ended" /\ Unwrap(resp["r1"]).status = 400
    /\ pc["r2"] = "ended" /\ Unwrap(resp["r2"]).status = 200
    /\ endpoint = Unwrap(resp["r2"]).endpoint
    /\ disk = Saved(endpoint, last_poll)
    /\ IsSome(last_poll)

\* C13 as stated: for every reading of the clock, the cutoff text that lines
\* 150-155 compute from it is not lexicographically above the wire form of
\* the reading itself.  Fails where the year gains a digit: "{:04}" pads
\* but does not truncate, and "9999-12-31T23:59:30Z" is above
\* "10000-01-01T00:00:30Z".
C13_CutoffOrdering ==
    (IsSome(wire_now) /\ wire_cut.kind = "time")
    => ~StrLt(Unwrap(wire_now), wire_cut.text)

C15_PollerLoop ==
    /\ [](pc["bg"] # "ended")
    /\ [](pc["bg"] = "idle"
          => /\ fetched["bg"] = 0 /\ batch["bg"] = <<>> /\ pushed["bg"] = <<>>
             /\ lock # "bg")
    /\ [][/\ (pc["bg"] # "idle" /\ pc'["bg"] = "idle") => pc["bg"] = "done"
          /\ (pc["bg"] \notin {"idle", "done"} /\ pc'["bg"] # pc["bg"])
             => pc'["bg"] # "idle"
          /\ (pc'["bg"] = "first" /\ pc["bg"] # "first") => pc["bg"] = "idle"]_vars
    /\ []<>(pc["bg"] = "idle")
    /\ []<>(pc["bg"] # "idle")

\* the poller is back at idle after a cycle that moved the cursor (memory holds
\* a cursor that the file, whose save failed, does not)
C15_Witness ==
    /\ pc["bg"] = "idle"
    /\ IsSome(last_poll) /\ last_poll # load(disk).last_poll

\* C16: in a cycle that found the cursor present and whose fetch succeeded,
\* at every point of the for loop the push calls made so far are, in order,
\* one call per unread record among the records already passed, carrying that
\* record's id; a read record gets no call, and a failed call is not repeated.
C16_ForwardingOrder ==
    \A p \in Pollers :
        (fetched[p] = 1 /\ ~fetchErr[p] /\ ~is_first[p]
         /\ pc[p] \in {"loop", "save", "done"})
        => /\ idx[p] \in 1..(Len(batch[p]) + 1)
           /\ PushedIds(p) =
                 IdsWhere(SubSeq(batch[p], 1, idx[p] - 1), LAMBDA n : n.unread)
           /\ pc[p] \in {"save", "done"} => idx[p] = Len(batch[p]) + 1

\* the cycle is through a batch of two unread records: two calls in batch
\* order, the first of which failed
C16_Witness ==
    /\ pc["bg"] = "done" /\ fetched["bg"] = 1 /\ ~is_first["bg"]
    /\ Len(batch["bg"]) = 2
    /\ PushedIds("bg") = <<1, 2>>
    /\ ~pushed["bg"][1].ok

\* the file holds the in-memory endpoint and cursor
Synced == disk = Saved(endpoint, last_poll)

\* thread t returns from save in this step
SaveReturns(t) == pc[t] = "save" /\ pc'[t] # "save"

\* C17: the file changes only in a save made under the write guard, and a
\* save either fails or leaves exactly the endpoint and cursor that memory
\* holds at that moment, never one field's earlier value beside the other's
\* new one; so, with no thread inside set_endpoint or set_last_poll, the file
\* differs from memory only if it already did before the step and nothing was
\* written since, or if the save that just returned failed.
C17_WriteThrough ==
    [][/\ disk' # disk => \E t \in Threads : SaveReturns(t) /\ lock = t
       /\ \A t \in Threads :
             SaveReturns(t)
             => /\ disk' \in {Saved(endpoint, last_poll), disk, NoFile}
                /\ endpoint' = endpoint /\ last_poll' = last_poll
                /\ lock' = "free"
       /\ (lock' = "free" /\ ~Synced')
          => \/ lock = "free" /\ ~Synced /\ UNCHANGED config
             \/ \E t \in Threads : SaveReturns(t) /\ disk' \in {disk, NoFile}]_vars

\* a registration replaced the endpoint while a cycle was running, the cycle
\* then stored its cursor, and the file holds both new values
C17_Witness ==
    /\ pc["r1"] = "ended" /\ IsSome(arg["r1"])
    /\ pc["bg"] = "done" /\ IsSome(latest["bg"])
    /\ ep["bg"] # arg["r1"]
    /\ lock = "free"
    /\ disk = Saved(arg["r1"], latest["bg"])
    /\ Synced

\* C20: a cycle reads the endpoint once, when it starts, and keeps that value
\* until it returns, whatever registrations do meanwhile; every push of the
\* cycle goes to that value; and the value is one a registration stored, in
\* this run or in the one that left the state file.
C20_EndpointSnapshot ==
    /\ [](\A p \in Pollers : \A k \in 1..Len(pushed[p]) :
            /\ IsSome(ep[p])
            /\ pushed[p][k].to = Unwrap(ep[p])
            /\ \/ Unwrap(ep[p]) \in OldEndpoints
               \/ \E r \in Registrars : Assigned(r) /\ arg[r] = ep[p])
    /\ [][\A p \in Pollers :
            /\ (pc[p] = "idle" /\ pc'[p] # "idle") => ep'[p] = endpoint
            /\ pc[p] \notin {"idle", "done"} => ep'[p] = ep[p]
            /\ Len(pushed'[p]) > Len(pushed[p])
               => pushed'[p][Len(pushed'[p])].to = Unwrap(ep[p])]_vars

\* a registration made during the cycle has been answered, and the cycle has
\* gone on pushing to the endpoint it started with
C20_Witness ==
    /\ pc["r1"] = "ended" /\ IsSome(arg["r1"])
    /\ endpoint = arg["r1"]
    /\ Len(pushed["bg"]) = 2
    /\ pushed["bg"][2].to # Unwrap(endpoint)

\* thread p takes the write guard in set_last_poll in this step
StoresCursor(p) == pc[p] = "loop" /\ pc'[p] = "save"

\* C18 as stated: whenever a cycle stores a cursor, the value is not below
\* the one stored at that moment.  Fails when cycles overlap: a cycle stores
\* the maximum of the batch it fetched, and the other cycle may have stored a
\* greater one since that fetch.
C18_NeverDecreases ==
    [][\A p \in Pollers : StoresCursor(p) => CursorLe(last_poll, last_poll')]_vars

\* C18 (amended): when cycles overlap the last writer wins.  A cycle stores
\* the greatest updated_at among the unread records of its own batch; the
\* remote honouring the since bound, that value is not below the cursor the
\* cycle sent as since, and it is below the stored cursor only if the stored
\* cursor is no longer the one the cycle sent.
C18_LastWriterWins ==
    [][\A p \in Pollers :
          StoresCursor(p)
          => /\ UnreadIdx(batch[p]) # {}
             /\ last_poll' = Some(MaxStamp(UnreadStamps(batch[p])))
             /\ CursorLe(since[p], last_poll')
             /\ since[p] = last_poll => CursorLe(last_poll, last_poll')]_vars

\* the manual cycle has just stored a cursor below the one the background
\* cycle stored before it; both had sent the same since bound
C18_Witness ==
    /\ pc["m1"] = "save" /\ last_poll = latest["m1"]
    /\ pc["bg"] = "done" /\ IsSome(latest["bg"])
    /\ since["m1"] = since["bg"]
    /\ StrLt(Unwrap(latest["m1"]), Unwrap(latest["bg"]))

\* C19 as stated: in every cycle that has fetched, the 60 s cutoff is in force
\* exactly when the request carried no since bound: is_first_poll (line 147)
\* and the url (line 107) come from the same cursor value.  Fails when cycles
\* overlap: the two lines read the cursor separately, and another cycle can
\* store a cursor between them.
C19_FirstPollMatchesFetch ==
    \A p \in Pollers :
        fetched[p] = 1
        => /\ is_first[p] <=> ~IsSome(since[p])
           /\ IsSome(cutoff[p]) <=> ~IsSome(since[p])

====
